---- MODULE Spec2Model ----
(***************************************************************************)
(* Model of GXPTemplate: the console driver (GXPTemplate.cpp), the status  *)
(* validator Util::checkStatus (Util.cpp) and the OS helpers of OsUtil     *)
(* (OsUtil.cpp).  C strings are sequences of one-character strings, a      *)
(* const char* is a record with a null flag, and std::cout is a record of  *)
(* its formatting state plus the items written to it.                      *)
(***************************************************************************)
EXTENDS Integers, Sequences, FiniteSets, TLC

VARIABLES pc, comm_status, status, trace, cout, call, env, cwd

vars == <<pc, comm_status, status, trace, cout, call, env, cwd>>

(* ------------------------------ bounds -------------------------------- *)

\* longest path handed to NormalizeLocalPath / StartApplication
MaxLen == 4

\* largest field width a caller of checkStatus has set on the stream
MaxWidth == 13

(* --------------------------- value domains ---------------------------- *)

GSIT_SUCCESS == 0

GSIT_FAILURE == 1

MAX_PATH_LENGTH == 2048

\* sample of 32-bit status / error codes (success, small, sign bit set)
StatusValues == {GSIT_SUCCESS, GSIT_FAILURE, -1, 0 - 2147483647}

\* ApiString contents a status object may carry
MessageValues == {<<>>, <<"b", "a", "d">>}

ApiStatusValues == [errorCode : StatusValues, errorString : MessageValues]

GSIT_FAILED(x) == x # GSIT_SUCCESS

GSIT_SUCCEEDED(x) == x = GSIT_SUCCESS

(* ------------------------------ strings ------------------------------- *)

NullPtr == [isNull |-> TRUE, s |-> <<>>]

Ptr(s) == [isNull |-> FALSE, s |-> s]

strlen(p) == Len(p.s)

PathAlphabet == {"C", ":", "\\", "a"}

RECURSIVE SeqsUpTo(_, _)
SeqsUpTo(S, n) ==
  IF n = 0 THEN {<<>>}
  ELSE LET shorter == SeqsUpTo(S, n - 1)
       IN  shorter \cup {Append(t, x) : t \in {u \in shorter : Len(u) = n - 1}, x \in S}

PathValues == SeqsUpTo(PathAlphabet, MaxLen)

Repeat(ch, n) == [i \in 1..n |-> ch]

(* --------------------------- std::cout model -------------------------- *)

DefaultFormat == [basefield |-> {"dec"}, fill |-> " ", width |-> 0]

Stream(fmt) == [basefield |-> fmt.basefield, fill |-> fmt.fill, width |-> fmt.width, buf |-> <<>>]

Format(st) == [basefield |-> st.basefield, fill |-> st.fill, width |-> st.width]

Padding(st, n) == IF st.width > n THEN Repeat(st.fill, st.width - n) ELSE <<>>

\* operator<<(const char*): padded to width(), then width(0)
PutStr(st, s) ==
  [st EXCEPT !.buf = Append(@, [text |-> s, digits |-> <<>>, pad |-> Padding(st, Len(s))]),
             !.width = 0]

\* operator<< for an ApiString text held as a character sequence
PutText(st, chars) ==
  [st EXCEPT !.buf = Append(@, [text |-> "", digits |-> chars, pad |-> Padding(st, Len(chars))]),
             !.width = 0]

DigitChars == <<"0", "1", "2", "3", "4", "5", "6", "7", "8", "9", "a", "b", "c", "d", "e", "f">>

RECURSIVE Digits(_, _)
Digits(n, base) ==
  IF n < base THEN <<DigitChars[n + 1]>>
  ELSE Append(Digits(n \div base, base), DigitChars[(n % base) + 1])

\* the k low-order digits of n, leading zeros kept
RECURSIVE DigitsN(_, _, _)
DigitsN(n, base, k) ==
  IF k = 0 THEN <<>>
  ELSE Append(DigitsN(n \div base, base, k - 1), DigitChars[(n % base) + 1])

\* v + 2^31 for a negative 32-bit v: the low 31 bits of its two's complement
Low31(v) == (v + 2147483647) + 1

\* num_put for a 32-bit long.  hex and oct print the unsigned bit pattern:
\* for v < 0 that is 2^31 + Low31(v), i.e. a leading hex digit 8..f before
\* seven more, or a leading octal digit 2..3 before ten more.
Render(v, basefield) ==
  IF basefield = {"hex"}
  THEN IF v >= 0 THEN Digits(v, 16)
       ELSE <<DigitChars[8 + (Low31(v) \div 268435456) + 1]>>
            \o DigitsN(Low31(v) % 268435456, 16, 7)
  ELSE IF basefield = {"oct"}
  THEN IF v >= 0 THEN Digits(v, 8)
       ELSE <<DigitChars[2 + (Low31(v) \div 1073741824) + 1]>>
            \o DigitsN(Low31(v) % 1073741824, 8, 10)
  ELSE IF v < 0 THEN <<"-">> \o Digits(0 - v, 10)
  ELSE Digits(v, 10)

\* operator<<(long): rendered in the current base, padded, then width(0)
PutLong(st, v) ==
  LET d == Render(v, st.basefield)
  IN  [st EXCEPT !.buf = Append(@, [text |-> "", digits |-> d, pad |-> Padding(st, Len(d))]),
                 !.width = 0]

\* std::endl: unformatted put of '\n' and flush
Endl(st) == [st EXCEPT !.buf = Append(@, [text |-> "\n", digits |-> <<>>, pad |-> <<>>])]

\* std::hex: setf(ios_base::hex, ios_base::basefield)
Hex(st) == [st EXCEPT !.basefield = {"hex"}]

\* resetiosflags(ios_base::hex): clears the hex bit only
ResetHex(st) == [st EXCEPT !.basefield = @ \ {"hex"}]

Setw(st, n) == [st EXCEPT !.width = n]

Setfill(st, ch) == [st EXCEPT !.fill = ch]

(* --------------------------- Util::checkStatus ------------------------ *)

\* the block written inside the if of checkStatus
Diagnostic(comm_status_, gxp_status, error_string, st) ==
  LET ios_width == st.width
      ios_fill  == st.fill
      s1 == Endl(PutStr(st, " >> ERROR <<"))
      s2 == Endl(PutLong(Setfill(Setw(Hex(PutStr(s1, "Communication Error: 0x")), 8), "0"),
                         comm_status_))
      s3 == ResetHex(s2)
      s4 == Endl(PutLong(Setfill(Setw(Hex(PutStr(s3, "GXP Error: 0x")), 8), "0"),
                         gxp_status.errorCode))
      s5 == ResetHex(s4)
      s6 == IF Len(error_string) # 0
            THEN Endl(PutText(PutStr(s5, "GXP Error: "), error_string))
            ELSE s5
      s7 == Endl(Endl(s6))
  IN  Setw(Setfill(s7, ios_fill), ios_width)

\* variant: the diagnostic is written only when both layers failed
checkStatus_BothFailed(comm_status_, gxp_status, st) ==
  LET error_string == gxp_status.errorString
      after == IF GSIT_FAILED(comm_status_) /\ GSIT_FAILED(gxp_status.errorCode)
               THEN Diagnostic(comm_status_, gxp_status, error_string, st)
               ELSE st
  IN  [ret  |-> GSIT_SUCCEEDED(comm_status_) /\ GSIT_SUCCEEDED(gxp_status.errorCode),
       cout |-> after]

checkStatus(comm_status_, gxp_status, st) ==
  LET error_string == gxp_status.errorString
      after == IF GSIT_FAILED(comm_status_) \/ GSIT_FAILED(gxp_status.errorCode)
               THEN Diagnostic(comm_status_, gxp_status, error_string, st)
               ELSE st
  IN  [ret  |-> GSIT_SUCCEEDED(comm_status_) /\ GSIT_SUCCEEDED(gxp_status.errorCode),
       cout |-> after]

(* ------------------------------- OsUtil ------------------------------- *)

ExeSuffix == <<".", "e", "x", "e">>

GxpExeName == <<"\\", "S", "o", "c", "e", "t", "G", "x", "p">>

\* variant: a failed creation request is tried a second time
StartApplication_Retry(application, createOk, lastError, st) ==
  IF application.isNull \/ strlen(application) = 0
  THEN [ret |-> 0, spawns |-> <<>>, errReads |-> 0, cout |-> st]
  ELSE LET exe == application.s \o ExeSuffix
       IN  IF createOk
           THEN [ret |-> 10, spawns |-> <<exe>>, errReads |-> 0, cout |-> st]
           ELSE [ret |-> 0, spawns |-> <<exe, exe>>, errReads |-> 1,
                 cout |-> Endl(PutLong(PutStr(st, "REPORTED ERROR: "), lastError))]

\* variant: the empty-argument guard is missing
StartApplication_NoGuard(application, createOk, lastError, st) ==
  LET exe == application.s \o ExeSuffix
  IN  IF createOk
      THEN [ret |-> 10, spawns |-> <<exe>>, errReads |-> 0, cout |-> st]
      ELSE [ret |-> 0, spawns |-> <<exe>>, errReads |-> 1,
            cout |-> Endl(PutLong(PutStr(st, "REPORTED ERROR: "), lastError))]

\* createOk / lastError: what CreateProcess and GetLastError answer if asked
StartApplication(application, createOk, lastError, st) ==
  IF application.isNull \/ strlen(application) = 0
  THEN [ret |-> 0, spawns |-> <<>>, errReads |-> 0, cout |-> st]
  ELSE LET exe == application.s \o ExeSuffix
       IN  IF createOk
           THEN [ret |-> 10, spawns |-> <<exe>>, errReads |-> 0, cout |-> st]
           ELSE [ret |-> 0, spawns |-> <<exe>>, errReads |-> 1,
                 cout |-> Endl(PutLong(PutStr(st, "REPORTED ERROR: "), lastError))]

\* variant: an unset variable is treated as the empty installation directory
StartGxpApplication_NoNullCheck(path, createOk, lastError, st) ==
  [delegated |-> TRUE] @@ StartApplication(Ptr(path.s \o GxpExeName), createOk, lastError, st)

\* path: the result of getenv("SOCETGXPEXE")
StartGxpApplication(path, createOk, lastError, st) ==
  IF path.isNull
  THEN [ret |-> 0, spawns |-> <<>>, errReads |-> 0, delegated |-> FALSE,
        cout |-> Endl(PutStr(st, "SOCETGXPEXE is not set."))]
  ELSE [delegated |-> TRUE] @@ StartApplication(Ptr(path.s \o GxpExeName), createOk, lastError, st)

\* _getcwd(buf, maxlen): NULL when the OS call fails or the directory plus
\* its terminator does not fit in the buffer
getcwd(dir, maxlen) ==
  IF dir.isNull \/ Len(dir.s) + 1 > maxlen THEN NullPtr ELSE dir

\* variant: the drive test looks at the colon only
NormalizeLocalPath_ColonOnly(path, dir) ==
  LET drive_set == Len(path) > 3 /\ path[2] = ":"
      cur_path  == getcwd(dir, MAX_PATH_LENGTH)
  IN  IF Len(path) = 0 THEN [ret |-> <<>>, cwdReads |-> 0]
      ELSE IF drive_set THEN [ret |-> path, cwdReads |-> 0]
      ELSE IF cur_path.isNull THEN [ret |-> <<>>, cwdReads |-> 1]
      ELSE [ret |-> (cur_path.s \o <<"\\">>) \o path, cwdReads |-> 1]

\* dir: the process working directory as the OS holds it (null: the OS
\* call fails).  C index 1 and 2 are sequence positions 2 and 3.
NormalizeLocalPath(path, dir) ==
  LET drive_set == Len(path) > 3 /\ path[2] = ":" /\ path[3] = "\\"
      cur_path  == getcwd(dir, MAX_PATH_LENGTH)
  IN  IF Len(path) = 0 THEN [ret |-> <<>>, cwdReads |-> 0]
      ELSE IF drive_set THEN [ret |-> path, cwdReads |-> 0]
      ELSE IF cur_path.isNull THEN [ret |-> <<>>, cwdReads |-> 1]
      ELSE [ret |-> (cur_path.s \o <<"\\">>) \o path, cwdReads |-> 1]

(* ------------------------ GXPTemplate.cpp driver ---------------------- *)

NoCall == [fn |-> "none"]

DefaultStatus == [errorCode |-> GSIT_SUCCESS, errorString |-> <<>>]

InitDriver ==
  /\ pc = "InitializeApi"
  /\ comm_status = GSIT_FAILURE
  /\ status = DefaultStatus
  /\ trace = <<>>
  /\ cout = DefaultFormat
  /\ call = NoCall
  /\ env = NullPtr
  /\ cwd = NullPtr

\* _tmain: ApiManager::InitializeApi()
InitializeApi ==
  /\ pc = "InitializeApi"
  /\ trace' = Append(trace, "InitializeApi")
  /\ pc' = "exec"
  /\ UNCHANGED <<comm_status, status, cout, call, env, cwd>>

\* exec: the locals gxp_manager, status and comm_status are constructed
exec ==
  /\ pc = "exec"
  /\ comm_status' = GSIT_FAILURE
  /\ status' = DefaultStatus
  /\ pc' = "gxpConnect"
  /\ UNCHANGED <<trace, cout, call, env, cwd>>

\* exec: comm_status = gxp_manager.gxpConnect(status); the library answers
\* with any transport status and fills in any application status
gxpConnect ==
  /\ pc = "gxpConnect"
  /\ \E c \in StatusValues, s \in ApiStatusValues :
        /\ comm_status' = c
        /\ status' = s
  /\ trace' = Append(trace, "gxpConnect")
  /\ pc' = "gxpDisconnect"
  /\ UNCHANGED <<cout, call, env, cwd>>

\* variant: the session is closed only when the connect succeeded
gxpDisconnect_OnlyIfConnected ==
  /\ pc = "gxpDisconnect"
  /\ trace' = IF GSIT_SUCCEEDED(comm_status) /\ GSIT_SUCCEEDED(status.errorCode)
              THEN Append(trace, "gxpDisconnect")
              ELSE trace
  /\ pc' = "UninitializeApi"
  /\ UNCHANGED <<comm_status, status, cout, call, env, cwd>>

\* exec: gxp_manager.gxpDisconnect(), then exec returns to _tmain
gxpDisconnect ==
  /\ pc = "gxpDisconnect"
  /\ trace' = Append(trace, "gxpDisconnect")
  /\ pc' = "UninitializeApi"
  /\ UNCHANGED <<comm_status, status, cout, call, env, cwd>>

\* _tmain: ApiManager::UninitializeApi()
UninitializeApi ==
  /\ pc = "UninitializeApi"
  /\ trace' = Append(trace, "UninitializeApi")
  /\ pc' = "return"
  /\ UNCHANGED <<comm_status, status, cout, call, env, cwd>>

\* _tmain: return 0
Return ==
  /\ pc = "return"
  /\ pc' = "done"
  /\ UNCHANGED <<comm_status, status, trace, cout, call, env, cwd>>

NextDriver == InitializeApi \/ exec \/ gxpConnect \/ gxpDisconnect \/ UninitializeApi \/ Return

SpecDriver == InitDriver /\ [][NextDriver]_vars

(* ----------------------- callers of Util::checkStatus ----------------- *)

BasefieldValues == {{"dec"}, {"hex"}, {"oct"}, {}}

FillValues == {" ", "*"}

WidthValues == {0, 4, MaxWidth}

FormatValues == [basefield : BasefieldValues, fill : FillValues, width : WidthValues]

\* the caller has set any formatting state on std::cout
InitUtil ==
  /\ pc = "caller"
  /\ comm_status = GSIT_FAILURE
  /\ status = DefaultStatus
  /\ trace = <<>>
  /\ cout \in FormatValues
  /\ call = NoCall
  /\ env = NullPtr
  /\ cwd = NullPtr

\* one call Util::checkStatus(c, s) from entry to return
CallCheckStatus ==
  /\ pc = "caller"
  /\ \E c \in StatusValues, s \in ApiStatusValues :
        LET r == checkStatus(c, s, Stream(cout))
        IN  /\ cout' = Format(r.cout)
            /\ call' = [fn |-> "checkStatus", comm_status |-> c, gxp_status |-> s,
                        ret |-> r.ret, before |-> cout, emitted |-> r.cout.buf]
  /\ UNCHANGED <<pc, comm_status, status, trace, env, cwd>>

NextUtil == CallCheckStatus

SpecUtil == InitUtil /\ [][NextUtil]_vars

(* --------------------------- callers of OsUtil ------------------------ *)

InstallDir == <<"C", ":", "\\", "g">>

WorkDir == <<"D", ":", "\\", "w">>

\* getenv("SOCETGXPEXE"): unset, set to the empty string, set to a directory
EnvValues == {NullPtr, Ptr(<<>>), Ptr(InstallDir)}

\* the working directory: OS failure, an ordinary one, one that fills the buffer
CwdValues == {NullPtr, Ptr(WorkDir), Ptr(Repeat("a", MAX_PATH_LENGTH))}

\* GetLastError() samples: ERROR_FILE_NOT_FOUND, ERROR_BAD_EXE_FORMAT
LastErrorValues == {2, 193}

ApplicationValues == {NullPtr} \cup {Ptr(p) : p \in PathValues}

InitOsUtil ==
  /\ pc = "caller"
  /\ comm_status = GSIT_FAILURE
  /\ status = DefaultStatus
  /\ trace = <<>>
  /\ cout = DefaultFormat
  /\ call = NoCall
  /\ env \in EnvValues
  /\ cwd \in CwdValues

\* one call OsUtil::StartApplication(application), up to its return
CallStartApplication ==
  /\ pc = "caller"
  /\ \E application \in ApplicationValues, createOk \in BOOLEAN, lastError \in LastErrorValues :
        LET r == StartApplication(application, createOk, lastError, Stream(cout))
        IN  /\ cout' = Format(r.cout)
            /\ call' = [fn |-> "StartApplication", arg |-> application, createOk |-> createOk,
                        lastError |-> lastError, ret |-> r.ret, spawns |-> r.spawns,
                        errReads |-> r.errReads, emitted |-> r.cout.buf]
  /\ UNCHANGED <<comm_status, status, trace, env, cwd>>
  /\ pc' = "returned"

\* one call OsUtil::StartGxpApplication()
CallStartGxpApplication ==
  /\ pc = "caller"
  /\ \E createOk \in BOOLEAN, lastError \in LastErrorValues :
        LET r == StartGxpApplication(env, createOk, lastError, Stream(cout))
        IN  /\ cout' = Format(r.cout)
            /\ call' = [fn |-> "StartGxpApplication", arg |-> env, createOk |-> createOk,
                        lastError |-> lastError, ret |-> r.ret, spawns |-> r.spawns,
                        errReads |-> r.errReads, emitted |-> r.cout.buf,
                        delegated |-> r.delegated]
  /\ UNCHANGED <<comm_status, status, trace, env, cwd>>
  /\ pc' = "returned"

\* one call OsUtil::NormalizeLocalPath(path)
CallNormalizeLocalPath ==
  /\ pc = "caller"
  /\ \E path \in PathValues :
        LET r == NormalizeLocalPath(path, cwd)
        IN  call' = [fn |-> "NormalizeLocalPath", arg |-> path, ret |-> r.ret,
                     cwdReads |-> r.cwdReads]
  /\ UNCHANGED <<comm_status, status, trace, cout, env, cwd>>
  /\ pc' = "returned"

NextOsUtil == CallStartApplication \/ CallStartGxpApplication \/ CallNormalizeLocalPath

SpecOsUtil == InitOsUtil /\ [][NextOsUtil]_vars

(* ============================== properties ============================ *)

Count(name) == Cardinality({i \in DOMAIN trace : trace[i] = name})

Before(a, b) == \E i, j \in DOMAIN trace : i < j /\ trace[i] = a /\ trace[j] = b

Texts(buf) == [i \in DOMAIN buf |-> buf[i].text]

Full(item) == item.pad \o item.digits

\* the sample codes as 8-digit zero-padded hexadecimal
Hex8(v) ==
  CASE v = 0 -> <<"0", "0", "0", "0", "0", "0", "0", "0">>
    [] v = 1 -> <<"0", "0", "0", "0", "0", "0", "0", "1">>
    [] v = -1 -> <<"f", "f", "f", "f", "f", "f", "f", "f">>
    [] v = 0 - 2147483647 -> <<"8", "0", "0", "0", "0", "0", "0", "1">>

\* the sample OS error codes in decimal
Dec(v) ==
  CASE v = 2 -> <<"2">>
    [] v = 193 -> <<"1", "9", "3">>

\* C1: in every run of the driver gxpConnect is attempted at most once and
\* gxpDisconnect is called at most once; once UninitializeApi has been
\* called or the program has terminated, exactly one gxpConnect and exactly
\* one gxpDisconnect have happened, the disconnect after the connect and
\* before UninitializeApi, whatever statuses the connect produced.
C1_DisconnectAlwaysOnce ==
  /\ Count("gxpConnect") <= 1
  /\ Count("gxpDisconnect") <= 1
  /\ (Count("UninitializeApi") > 0 \/ pc \in {"return", "done"}) =>
        /\ Count("gxpConnect") = 1
        /\ Count("gxpDisconnect") = 1
        /\ Count("UninitializeApi") = 1
        /\ Before("gxpConnect", "gxpDisconnect")
        /\ Before("gxpDisconnect", "UninitializeApi")

\* the driver has terminated after a connect that failed on both layers
C1_Witness ==
  /\ pc = "done"
  /\ GSIT_FAILED(comm_status)
  /\ GSIT_FAILED(status.errorCode)
  /\ Count("gxpDisconnect") = 1

\* C4: every run of the driver launches the application through the
\* launcher (which reads the environment variable) before InitializeApi,
\* and validates the connect's status pair with checkStatus after
\* gxpConnect and before gxpDisconnect, which precedes UninitializeApi.
C4_DriverSequence ==
  pc = "done" =>
     /\ Before("StartGxpApplication", "InitializeApi")
     /\ Before("InitializeApi", "gxpConnect")
     /\ Before("gxpConnect", "checkStatus")
     /\ Before("checkStatus", "gxpDisconnect")
     /\ Before("gxpDisconnect", "UninitializeApi")

\* C2: checkStatus(c, s) returns true exactly when c and s's error code are
\* both success codes; a call that returns true writes nothing, and a call
\* that returns false writes the banner, the transport status and the
\* error code as 8-digit hexadecimal, and the message exactly when it is
\* non-empty.
C2_CheckStatusDecision ==
  call.fn = "checkStatus" =>
     LET c  == call.comm_status
         s  == call.gxp_status
         ok == GSIT_SUCCEEDED(c) /\ GSIT_SUCCEEDED(s.errorCode)
         e  == call.emitted
         head == <<" >> ERROR <<", "\n", "Communication Error: 0x", "", "\n",
                   "GXP Error: 0x", "", "\n">>
     IN  /\ call.ret = ok
         /\ ok => e = <<>>
         /\ ~ok =>
              /\ Texts(e) = IF s.errorString = <<>>
                            THEN head \o <<"\n", "\n">>
                            ELSE head \o <<"GXP Error: ", "", "\n", "\n", "\n">>
              /\ Full(e[4]) = Hex8(c)
              /\ Full(e[7]) = Hex8(s.errorCode)
              /\ s.errorString # <<>> => e[10].digits = s.errorString

\* a call with a successful transport status and a failed application
\* status carrying a message returned false and wrote the full block
C2_Witness ==
  /\ call.fn = "checkStatus"
  /\ GSIT_SUCCEEDED(call.comm_status)
  /\ GSIT_FAILED(call.gxp_status.errorCode)
  /\ call.gxp_status.errorString # <<>>
  /\ call.ret = FALSE
  /\ Len(call.emitted) = 13

\* C3: after any call of checkStatus the stream's base flags, fill
\* character and field width equal their values just before the call.
C3_FormatRestored ==
  call.fn = "checkStatus" =>
     /\ cout.basefield = call.before.basefield
     /\ cout.fill = call.before.fill
     /\ cout.width = call.before.width

\* C5: with SOCETGXPEXE unset, StartGxpApplication returns 0, does not call
\* StartApplication, makes no process-creation request, writes the message
\* naming the variable and returns to its caller.
C5_UnsetVariable ==
  (call.fn = "StartGxpApplication" /\ env.isNull) =>
     /\ call.ret = 0
     /\ ~call.delegated
     /\ call.spawns = <<>>
     /\ call.errReads = 0
     /\ Texts(call.emitted) = <<"SOCETGXPEXE is not set.", "\n">>
     /\ pc = "returned"

C5_Witness ==
  /\ call.fn = "StartGxpApplication"
  /\ env.isNull
  /\ pc = "returned"

\* C6: StartApplication with a null pointer or an empty string returns 0,
\* makes no process-creation request, reads no OS error code and writes
\* nothing.
C6_EmptyArgument ==
  (call.fn = "StartApplication" /\ (call.arg.isNull \/ call.arg.s = <<>>)) =>
     /\ call.ret = 0
     /\ call.spawns = <<>>
     /\ call.errReads = 0
     /\ call.emitted = <<>>

C6_Witness ==
  /\ call.fn = "StartApplication"
  /\ ~call.arg.isNull
  /\ call.arg.s = <<>>
  /\ pc = "returned"

\* C7: NormalizeLocalPath(p) is empty if p is empty; p unchanged, without
\* reading the working directory, if p is longer than 3 and has ':' and
\* the separator at positions 1 and 2; otherwise empty if the working
\* directory cannot be retrieved, else cwd + separator + p.
C7_NormalizeReference ==
  call.fn = "NormalizeLocalPath" =>
     LET p == call.arg
         absolute == Len(p) > 3 /\ p[2] = ":" /\ p[3] = "\\"
         cwdFails == cwd.isNull \/ Len(cwd.s) >= MAX_PATH_LENGTH
     IN  /\ call.ret = IF p = <<>> THEN <<>>
                       ELSE IF absolute THEN p
                       ELSE IF cwdFails THEN <<>>
                       ELSE cwd.s \o <<"\\">> \o p
         /\ absolute => call.cwdReads = 0

\* a relative path was prefixed with the working directory
C7_Witness ==
  /\ call.fn = "NormalizeLocalPath"
  /\ call.arg = <<"a", ":", "a", "a">>
  /\ call.ret = WorkDir \o <<"\\">> \o call.arg

\* C8: for a non-empty argument StartApplication makes exactly one
\* process-creation request, for the argument with ".exe" appended, and
\* returns non-zero exactly when the request succeeded; when it failed the
\* call reads the OS error once, writes one line carrying it and returns 0.
C8_SingleRequest ==
  (call.fn = "StartApplication" /\ ~call.arg.isNull /\ call.arg.s # <<>>) =>
     /\ call.spawns = <<call.arg.s \o <<".", "e", "x", "e">>>>
     /\ (call.ret # 0) <=> call.createOk
     /\ ~call.createOk =>
          /\ call.ret = 0
          /\ call.errReads = 1
          /\ Texts(call.emitted) = <<"REPORTED ERROR: ", "", "\n">>
          /\ Full(call.emitted[2]) = Dec(call.lastError)

\* a creation request for a non-empty argument was refused by the OS
C8_Witness ==
  /\ call.fn = "StartApplication"
  /\ call.arg.s = <<"C", ":", "\\", "a">>
  /\ ~call.createOk
  /\ call.lastError = 193
  /\ call.ret = 0

\* C9: StartGxpApplication requests a process creation only when
\* SOCETGXPEXE holds a non-empty string; with the variable unset or set to
\* the empty string no request is made and 0 is returned.
C9_NonEmptyToProceed ==
  call.fn = "StartGxpApplication" =>
     /\ call.spawns # <<>> => (~env.isNull /\ env.s # <<>>)
     /\ (env.isNull \/ env.s = <<>>) => call.ret = 0

\* C10: every path with ':' and the separator at positions 1 and 2,
\* the three-character prefix alone included, is returned unchanged; only
\* a path without that prefix is prefixed with the working directory.
C10_PrefixUnchanged ==
  call.fn = "NormalizeLocalPath" =>
     LET p == call.arg
         prefixed == Len(p) >= 3 /\ p[2] = ":" /\ p[3] = "\\"
     IN  /\ prefixed => call.ret = p
         /\ (call.ret # p /\ call.ret # <<>>) => ~prefixed

====
